---- MODULE Spec2Model ----
(***************************************************************************)
(* The local data store service of the invoicing application               *)
(* (src/src/lib/db.ts, class DatabaseService, lines 1-370): a singleton    *)
(* that lazily opens the IndexedDB database 'invoice-app' and offers       *)
(* client / invoice / settings operations plus JSON backup and restore.    *)
(*                                                                         *)
(* Callers are the tasks of the page (effects, event handlers).  A task    *)
(* that finds the handle unset issues an open request and is suspended     *)
(* until IndexedDB has served it; requests on one database are served in   *)
(* the order they were issued.  The body of an operation, once init() has  *)
(* returned, is taken as one step, except where an operation is followed   *)
(* await by await to interleave it with another task's operation.          *)
(***************************************************************************)
EXTENDS Integers, Sequences, FiniteSets, TLC

VARIABLES
    handle,     \* DatabaseService.db: 0 is null, otherwise a connection id
    conns,      \* the connections to 'invoice-app' that are open
    requests,   \* open / delete requests IndexedDB has not served yet, oldest first
    idb,        \* the database 'invoice-app' as it is on disk
    called,     \* which of updateSettings and restore have run so far
    last,       \* what the step just taken handed back to its caller
    forms,      \* the pages (New Invoice form, Backup page) that are open, one per task
    awaiting    \* per task: the locals of an operation stopped between two awaits

vars == <<handle, conns, requests, idb, called, last, forms, awaiting>>

----------------------------------------------------------------------------
(* Bounds of the model *)

NumProcs == 2       \* tasks of the page that may use the store at the same time
MaxClientId == 2    \* client keys handed out before addClient is held back
MaxInvoiceId == 1   \* invoice keys handed out before addInvoice is held back
MaxSaved == 2       \* invoice keys handed out before the forms are held back

Procs == 1..NumProcs

----------------------------------------------------------------------------
(* JavaScript values.  A number is [num |-> n]; NaN, null and undefined are *)
(* values of their own.  A property that is absent is absent from the       *)
(* record; reading it yields undefined.                                     *)

Num(n) == [num |-> n]
NaN == [nan |-> TRUE]
Null == [null |-> TRUE]
Undefined == [undefined |-> TRUE]

IsNum(v) == DOMAIN v = {"num"}

Has(r, k) == k \in DOMAIN r
Get(r, k) == IF Has(r, k) THEN r[k] ELSE Undefined

\* ToNumber: null is 0, undefined and NaN are NaN
ToNumber(v) == IF IsNum(v) THEN v ELSE IF v = Null THEN Num(0) ELSE NaN

JsAdd(a, b) ==
    LET x == ToNumber(a)
        y == ToNumber(b)
    IN IF IsNum(x) /\ IsNum(y) THEN Num(x.num + y.num) ELSE NaN

JsSub(a, b) ==
    LET x == ToNumber(a)
        y == ToNumber(b)
    IN IF IsNum(x) /\ IsNum(y) THEN Num(x.num - y.num) ELSE NaN

JsMul(a, b) ==
    LET x == ToNumber(a)
        y == ToNumber(b)
    IN IF IsNum(x) /\ IsNum(y) THEN Num(x.num * y.num) ELSE NaN

\* v || 0 : undefined, null, NaN and 0 are falsy
OrZero(v) == IF IsNum(v) /\ v.num # 0 THEN v ELSE Num(0)

\* { ...a, ...b } : the properties of b override those of a
Spread(a, b) == [k \in DOMAIN a \cup DOMAIN b |-> IF k \in DOMAIN b THEN b[k] ELSE a[k]]

----------------------------------------------------------------------------
(* Object stores.  A store is the set of its records; the key of a record  *)
(* is the property the store's keyPath names.                              *)

StoreNames == {"clients", "invoices", "settings"}

DBVersion == 1

Keys(store, kp) == {r[kp] : r \in store}
Lookup(store, kp, k) == CHOOSE r \in store : r[kp] = k
Contains(store, kp, k) == k \in Keys(store, kp)

Max(a, b) == IF a >= b THEN a ELSE b

\* IDBObjectStore.add on a store with keyPath 'id' and autoIncrement: a record
\* that carries no id gets the next generated key; one that carries an id is
\* stored under it, is rejected when the key is taken, and pushes the
\* generator past it.
Add(store, gen, rec) ==
    IF Has(rec, "id")
    THEN IF Contains(store, "id", rec.id)
         THEN [ok |-> FALSE, store |-> store, gen |-> gen, key |-> rec.id]
         ELSE [ok |-> TRUE, store |-> store \cup {rec},
               gen |-> Max(gen, rec.id + 1), key |-> rec.id]
    ELSE [ok |-> TRUE, store |-> store \cup {Spread(rec, [id |-> gen])},
          gen |-> gen + 1, key |-> gen]

\* (variant: put writes only over a record that is stored)
PutOverStored(store, gen, rec) ==
    IF Has(rec, "id")
    THEN [ok |-> TRUE, gen |-> gen, key |-> rec.id,
          store |-> IF Contains(store, "id", rec.id)
                    THEN {r \in store : r.id # rec.id} \cup {rec} ELSE store]
    ELSE Add(store, gen, rec)

\* IDBObjectStore.put: as add, but a record under the same key is replaced
Put(store, gen, rec) ==
    IF Has(rec, "id")
    THEN [ok |-> TRUE, store |-> {r \in store : r.id # rec.id} \cup {rec},
          gen |-> Max(gen, rec.id + 1), key |-> rec.id]
    ELSE Add(store, gen, rec)

\* IDBObjectStore.delete: no error when the key is absent
Delete(store, k) == {r \in store : r.id # k}

\* (variant: put keeps the fields of the stored record that the new one lacks)
PutSettingsMerging(store, rec) ==
    {r \in store : r.key # rec.key} \cup
    {IF Contains(store, "key", rec.key)
     THEN Spread(Lookup(store, "key", rec.key), rec) ELSE rec}

\* put on the settings store (keyPath 'key', no key generator)
PutSettings(store, rec) == {r \in store : r.key # rec.key} \cup {rec}

\* IDBObjectStore.getAll: the records in ascending key order
RECURSIVE GetAll(_)
GetAll(store) ==
    IF store = {} THEN <<>>
    ELSE LET k == CHOOSE k \in Keys(store, "id") : \A j \in Keys(store, "id") : k <= j
             r == Lookup(store, "id", k)
         IN <<r>> \o GetAll(store \ {r})

----------------------------------------------------------------------------
(* The database 'invoice-app'.  version 0 is a database that does not exist. *)
(* created counts the createObjectStore calls per store name, upgrades the  *)
(* runs of the upgrade callback and seeds the default Settings records      *)
(* added, all since the database came to exist.                             *)

DefaultSettings == [key |-> "company", companyName |-> "", currency |-> "Rp"]

NoDatabase ==
    [version |-> 0,
     created |-> [s \in StoreNames |-> 0],
     clients |-> {}, invoices |-> {}, settings |-> {},
     clientGen |-> 1, invoiceGen |-> 1,
     upgrades |-> 0, seeds |-> 0]

\* db.objectStoreNames.contains(name)
HasStore(d, name) == d.created[name] > 0

CreateStore(d, name) == [d EXCEPT !.created[name] = @ + 1]

\* (variant: the settings store is created but no default record added)
UpgradeWithoutSeed(d) ==
    LET d1 == IF ~HasStore(d, "clients") THEN CreateStore(d, "clients") ELSE d
        d2 == IF ~HasStore(d1, "invoices") THEN CreateStore(d1, "invoices") ELSE d1
        d3 == IF ~HasStore(d2, "settings") THEN CreateStore(d2, "settings") ELSE d2
    IN [d3 EXCEPT !.upgrades = @ + 1]

\* the upgrade callback handed to openDB
Upgrade(d) ==
    LET d1 == IF ~HasStore(d, "clients") THEN CreateStore(d, "clients") ELSE d
        d2 == IF ~HasStore(d1, "invoices") THEN CreateStore(d1, "invoices") ELSE d1
        d3 == IF ~HasStore(d2, "settings")
              THEN [CreateStore(d2, "settings") EXCEPT
                        !.settings = @ \cup {DefaultSettings},
                        !.seeds = @ + 1]
              ELSE d2
    IN [d3 EXCEPT !.upgrades = @ + 1]

\* (variant: the callback runs at every open)
UpgradeAtEveryOpen(oldVersion) == TRUE

\* openDB('invoice-app', 1, {upgrade}) runs the callback when the stored
\* version is lower than the requested one
UpgradeNeeded(oldVersion) == oldVersion < DBVersion

OpenDB(d) ==
    IF UpgradeNeeded(d.version) THEN [Upgrade(d) EXCEPT !.version = DBVersion] ELSE d

\* a connection id no open connection carries
NewConn == CHOOSE c \in 1..(Cardinality(conns) + 1) : c \notin conns

----------------------------------------------------------------------------
(* What callers hand to the store *)

ClientNames == {"Acme", "Bob"}
ClientInputs == {[name |-> n] : n \in ClientNames}
\* updateClient takes a record whose id may be absent (or 0)
ClientRecords ==
    ClientInputs \cup {Spread(c, [id |-> i]) : c \in ClientInputs, i \in 0..MaxClientId}

Good == [quantity |-> Num(2), rate |-> Num(500), amount |-> Num(1000)]
NoAmount == [quantity |-> Num(2), rate |-> Num(500)]
Stale == [quantity |-> Num(3), rate |-> Num(10), amount |-> Num(20)]


\* invoices as a form hands them over: one item without amount and a discount
\* of 100; two items of which one has a stale amount, with and without the
\* caller's own subtotal and total; no item and no discount
CallerTotals == [subtotal |-> Num(7), total |-> Num(7)]
InvoiceInputs ==
    LET example == [clientId |-> 1, status |-> "draft", items |-> <<NoAmount>>,
                    discount |-> Num(100)]
        edited == [clientId |-> 1, status |-> "draft", items |-> <<Good, Stale>>,
                   discount |-> Num(100)]
        empty == [clientId |-> 1, status |-> "draft", items |-> <<>>]
    IN {example, edited, Spread(edited, CallerTotals), empty}

\* status: 'draft' | 'sent' | 'paid' | 'overdue'
Statuses == {"draft", "sent", "paid", "overdue"}
\* a due date that lies behind every day the page can run on
PastDue == "2020-01-31"
\* invoices of every status, due long ago
StatusInputs ==
    {[clientId |-> 1, status |-> st, dueDate |-> PastDue, items |-> <<Good>>,
      discount |-> Num(0)] : st \in Statuses}

\* invoices at the edges of the total: no item and a discount, a discount
\* below zero, a discount above the subtotal, no discount field
EdgeInputs ==
    LET one == [clientId |-> 1, status |-> "draft", items |-> <<Good>>]
    IN {[clientId |-> 1, status |-> "draft", items |-> <<>>, discount |-> Num(100)],
        Spread(one, [discount |-> Num(-50)]),
        Spread(one, [discount |-> Num(5000)]),
        one}

\* no New Invoice page is mounted in a task
NoForm == [mounted |-> FALSE]
\* a task that is not inside an operation followed await by await
NoLocals == [op |-> "none"]

CustomSettings == [companyName |-> "Acme Co", currency |-> "USD"]
SettingsInputs == {CustomSettings}
\* a caller handing over the company name alone
PartialSettings == [companyName |-> "Acme Co"]

----------------------------------------------------------------------------
(* addInvoice / updateInvoice: the derived fields *)

\* invoice.items.reduce((sum, item) => sum + item.amount, 0)
RECURSIVE SumAmounts(_, _)
SumAmounts(items, sum) ==
    IF items = <<>> THEN sum
    ELSE SumAmounts(Tail(items), JsAdd(sum, Get(Head(items), "amount")))

Subtotal(invoice) == SumAmounts(invoice.items, Num(0))

\* (variant: a total below zero is stored as zero)
TotalClamped(invoice) ==
    LET t == JsSub(Subtotal(invoice), OrZero(Get(invoice, "discount")))
    IN IF IsNum(t) /\ t.num < 0 THEN Num(0) ELSE t

\* subtotal - (invoice.discount || 0)
Total(invoice) == JsSub(Subtotal(invoice), OrZero(Get(invoice, "discount")))

\* { ...invoice, subtotal, total }
NewInvoice(invoice) ==
    Spread(invoice, [subtotal |-> Subtotal(invoice), total |-> Total(invoice)])

\* (variant: the record written is marked overdue)
UpdatedInvoiceOverdue(id, invoice) ==
    Spread(invoice, [id |-> id, subtotal |-> Subtotal(invoice), total |-> Total(invoice),
                     status |-> "overdue"])

\* { ...invoice, id, subtotal, total }
UpdatedInvoice(id, invoice) ==
    Spread(invoice, [id |-> id, subtotal |-> Subtotal(invoice), total |-> Total(invoice)])

----------------------------------------------------------------------------
(* backup / restore: the JSON document *)

\* JSON.stringify writes NaN as null
JsonValue(v) == IF v = NaN THEN Null ELSE v

JsonItem(item) == [k \in DOMAIN item |-> JsonValue(item[k])]

JsonInvoice(inv) ==
    [k \in DOMAIN inv |->
        IF k \in {"discount", "subtotal", "total"} THEN JsonValue(inv[k])
        ELSE IF k = "items" THEN [i \in DOMAIN inv.items |-> JsonItem(inv.items[i])]
        ELSE inv[k]]

\* JSON.stringify(backup): the text, given by the document a parser reads from it
Stringify(backup) ==
    [json |-> [clients |-> backup.clients,
               invoices |-> [i \in DOMAIN backup.invoices |-> JsonInvoice(backup.invoices[i])],
               settings |-> backup.settings]]

\* a string that is no JSON text
NotJson == [garbage |-> TRUE]

\* JSON.parse throws on a text that is no JSON
Parse(text) ==
    IF Has(text, "json") THEN [ok |-> TRUE, value |-> text.json] ELSE [ok |-> FALSE]

\* (variant: getSettings falls back to the default record)
GetSettingsOfOrDefault(d) ==
    [ok |-> TRUE,
     value |-> IF Contains(d.settings, "key", "company")
               THEN Lookup(d.settings, "key", "company") ELSE DefaultSettings]

\* getSettings: the record under 'company', or the error
GetSettingsOf(d) ==
    IF Contains(d.settings, "key", "company")
    THEN [ok |-> TRUE, value |-> Lookup(d.settings, "key", "company")]
    ELSE [ok |-> FALSE, error |-> "Settings not found"]

\* backup(): getClients, getInvoices and getSettings, then JSON.stringify
BackupOf(d) ==
    LET s == GetSettingsOf(d)
    IN IF s.ok
       THEN [ok |-> TRUE,
             value |-> Stringify([clients |-> GetAll(d.clients),
                                  invoices |-> GetAll(d.invoices),
                                  settings |-> s.value])]
       ELSE s

\* (variant: the adds of one loop are undone when one of them is rejected)
RECURSIVE AddAllUndone(_, _, _)
AddAllUndone(store, gen, recs) ==
    IF recs = <<>> THEN [ok |-> TRUE, store |-> store, gen |-> gen]
    ELSE LET a == Add(store, gen, Head(recs))
             rest == AddAllUndone(a.store, a.gen, Tail(recs))
         IN IF a.ok /\ rest.ok THEN rest
            ELSE [ok |-> FALSE, store |-> store, gen |-> gen]

\* for (const client of backup.clients) await db.add('clients', client):
\* stops at the first add the store rejects
RECURSIVE AddAll(_, _, _)
AddAll(store, gen, recs) ==
    IF recs = <<>> THEN [ok |-> TRUE, store |-> store, gen |-> gen]
    ELSE LET a == Add(store, gen, Head(recs))
         IN IF a.ok THEN AddAll(a.store, a.gen, Tail(recs))
            ELSE [ok |-> FALSE, store |-> store, gen |-> gen]

\* (variant: restore adds to what is stored)
ClearedNothing(d) == d

\* db.clear('clients'), db.clear('invoices'), db.clear('settings'): the
\* records go, the key generators stay as they are
Cleared(d) == [d EXCEPT !.clients = {}, !.invoices = {}, !.settings = {}]

\* a number a hand-written document may carry where an array is expected
JsonNumbers == {Num(5)}
\* typeof v === 'number', told from an array by the printed form of the value
IsJsonNumber(v) == ToString(v) \in {ToString(n) : n \in JsonNumbers}

\* for (const x of v) { await db.add(store, x) }: a number is not iterable
ForOf(store, gen, v) ==
    IF IsJsonNumber(v)
    THEN [ok |-> FALSE, error |-> "TypeError", store |-> store, gen |-> gen]
    ELSE LET a == AddAll(store, gen, v)
         IN [ok |-> a.ok, error |-> "ConstraintError", store |-> a.store, gen |-> a.gen]

\* restore after JSON.parse: the clears, the adds and the put of the settings
RestoreParsed(d, backup) ==
    LET cleared == Cleared(d)
        c == IF Has(backup, "clients")
             THEN ForOf(cleared.clients, cleared.clientGen, backup.clients)
             ELSE [ok |-> TRUE, store |-> cleared.clients, gen |-> cleared.clientGen]
        d1 == [cleared EXCEPT !.clients = c.store, !.clientGen = c.gen]
        i == IF Has(backup, "invoices")
             THEN ForOf(d1.invoices, d1.invoiceGen, backup.invoices)
             ELSE [ok |-> TRUE, store |-> d1.invoices, gen |-> d1.invoiceGen]
        d2 == [d1 EXCEPT !.invoices = i.store, !.invoiceGen = i.gen]
        d3 == IF Has(backup, "settings")
              THEN [d2 EXCEPT !.settings =
                       PutSettings(@, Spread([key |-> "company"], backup.settings))]
              ELSE d2
    IN IF ~c.ok THEN [ok |-> FALSE, error |-> c.error, db |-> d1]
       ELSE IF ~i.ok THEN [ok |-> FALSE, error |-> i.error, db |-> d2]
       ELSE [ok |-> TRUE, db |-> d3]

\* (variant: the stores are cleared before the document is parsed)
RestoreOfClearedFirst(d, text) ==
    LET parsed == Parse(text)
    IN IF ~parsed.ok THEN [ok |-> FALSE, error |-> "SyntaxError", db |-> Cleared(d)]
       ELSE RestoreParsed(d, parsed.value)

\* restore(backupData) on database d: the database it leaves and how it ended
RestoreOf(d, text) ==
    LET parsed == Parse(text)
    IN IF ~parsed.ok THEN [ok |-> FALSE, error |-> "SyntaxError", db |-> d]
       ELSE RestoreParsed(d, parsed.value)

\* the backup files a user may pick: one without a settings field, one with
\* settings of its own, one whose second client carries the id of its first,
\* and a file that is no JSON
DocNoSettings == [json |-> [clients |-> <<[id |-> 1, name |-> "Acme"]>>]]
DocCustom ==
    [json |-> [clients |-> <<>>, invoices |-> <<>>,
               settings |-> Spread([key |-> "company"], CustomSettings)]]
DocSameId ==
    [json |-> [clients |-> <<[id |-> 1, name |-> "Acme"], [id |-> 1, name |-> "Bob"]>>,
               invoices |-> <<>>,
               settings |-> Spread([key |-> "company"], CustomSettings)]]
BackupFiles == {DocNoSettings, DocCustom, DocSameId, NotJson}

\* files written by hand: an invoice whose subtotal and total are not those
\* of its items, and a settings object that carries a key of its own
DocWrongTotals ==
    [json |-> [clients |-> <<>>,
               invoices |-> <<[id |-> 1, clientId |-> 1, status |-> "draft",
                               items |-> <<Good>>, discount |-> Num(0),
                               subtotal |-> Num(7), total |-> Num(7)]>>,
               settings |-> Spread([key |-> "company"], CustomSettings)]]
DocOtherKey ==
    [json |-> [clients |-> <<>>, invoices |-> <<>>,
               settings |-> Spread([key |-> "other"], CustomSettings)]]
\* documents whose clients or invoices field is no array of records that can
\* be added: a number, and a client id that occurs twice
DocClientsNumber == [json |-> [clients |-> Num(5), invoices |-> <<>>]]
DocInvoicesNumber ==
    [json |-> [clients |-> <<[id |-> 1, name |-> "Acme"]>>, invoices |-> Num(5),
               settings |-> Spread([key |-> "company"], CustomSettings)]]
HandWrittenFiles ==
    {DocWrongTotals, DocOtherKey, DocClientsNumber, DocInvoicesNumber, DocSameId, NotJson}
\* a settings argument that carries a key of its own
KeyedSettings == Spread([key |-> "other"], CustomSettings)
----------------------------------------------------------------------------
(* init() and the tasks that wait for it *)

Init ==
    /\ handle = 0
    /\ conns = {}
    /\ requests = <<>>
    /\ idb = NoDatabase
    /\ called = {}
    /\ last = [op |-> "none", ok |-> TRUE]
    /\ forms = [p \in Procs |-> NoForm]
    /\ awaiting = [p \in Procs |-> NoLocals]

\* the operations that begin with `const db = await this.init()`
Ops ==
    {"init", "getClients", "getClient", "addClient", "updateClient", "deleteClient",
     "getInvoices", "getInvoice", "addInvoice", "updateInvoice", "deleteInvoice",
     "getSettings", "updateSettings", "backup", "restore"}

Idle(p) == \A i \in DOMAIN requests : requests[i].proc # p

OpenRequest(p, o) == [proc |-> p, kind |-> "open", op |-> o]
DeleteRequest(p) == [proc |-> p, kind |-> "delete", op |-> "clearDatabase"]

Served(p, o) == requests # <<>> /\ Head(requests) = OpenRequest(p, o)

\* init() with the handle unset: openDB is called and the task waits for it
CallOpenDB(p, ops) ==
    \E o \in ops :
        /\ Idle(p)
        /\ handle = 0
        /\ requests' = Append(requests, OpenRequest(p, o))
        /\ last' = [op |-> "await", ok |-> TRUE]
        /\ UNCHANGED <<handle, conns, idb, called, forms, awaiting>>

\* task p gets past `await this.init()` of operation o: either the handle is
\* set and init() returns it, or the open request of p has been served
Enters(p, o) == (Idle(p) /\ handle # 0) \/ Served(p, o)

\* (variant: init() opens the database whether or not the handle is set)
AfterInitAlwaysOpens(p) ==
    [handle |-> NewConn, conns |-> conns \cup {NewConn},
     requests |-> IF Idle(p) THEN requests ELSE Tail(requests), db |-> OpenDB(idb)]

\* the service and the database once init() has returned to p
AfterInit(p) ==
    IF Idle(p)
    THEN [handle |-> handle, conns |-> conns, requests |-> requests, db |-> idb]
    ELSE [handle |-> NewConn, conns |-> conns \cup {NewConn},
          requests |-> Tail(requests), db |-> OpenDB(idb)]

\* what the three collections of database d hold
Contents(d) == [clients |-> d.clients, invoices |-> d.invoices, settings |-> d.settings]

\* history kept for a backup() that is between two of its reads: every
\* content the store has had since the call began
Noted(d) ==
    awaiting' = [p \in Procs |->
                    IF awaiting[p].op = "backup"
                    THEN [awaiting[p] EXCEPT !.seen = @ \cup {Contents(d)}]
                    ELSE awaiting[p]]

\* the operation ends on database d and hands `result` to its caller
Settles(s, d, result) ==
    /\ handle' = s.handle
    /\ conns' = s.conns
    /\ requests' = s.requests
    /\ idb' = d
    /\ last' = result
    /\ Noted(d)

\* the same for a call that is no part of a form's handler
Returns(s, d, result) == Settles(s, d, result) /\ UNCHANGED forms

InitCall(p) ==
    /\ Enters(p, "init")
    /\ LET s == AfterInit(p)
       IN Returns(s, s.db, [op |-> "init", ok |-> TRUE, value |-> s.handle,
                            opened |-> ~Idle(p)])
    /\ UNCHANGED called

----------------------------------------------------------------------------
(* Client operations *)

GetClients(p) ==
    /\ Enters(p, "getClients")
    /\ LET s == AfterInit(p)
       IN Returns(s, s.db, [op |-> "getClients", ok |-> TRUE, value |-> GetAll(s.db.clients)])
    /\ UNCHANGED called

\* db.get resolves with undefined when the key is absent
GetClient(p) ==
    \E id \in 1..MaxClientId :
        /\ Enters(p, "getClient")
        /\ LET s == AfterInit(p)
           IN Returns(s, s.db,
                      [op |-> "getClient", ok |-> TRUE, arg |-> id,
                       value |-> IF Contains(s.db.clients, "id", id)
                                 THEN Lookup(s.db.clients, "id", id) ELSE Undefined])
        /\ UNCHANGED called

AddClient(p) ==
    \E client \in ClientInputs :
        /\ Enters(p, "addClient")
        /\ LET s == AfterInit(p)
               a == Add(s.db.clients, s.db.clientGen, client)
           IN /\ a.key <= MaxClientId
              /\ Returns(s, [s.db EXCEPT !.clients = a.store, !.clientGen = a.gen],
                         [op |-> "addClient", ok |-> TRUE, value |-> a.key])
        /\ UNCHANGED called

\* (variant: the id is not tested before the put)
HasClientIdUntested(client) == TRUE

\* if (client.id): an id that is absent or 0 is falsy
HasClientId(client) == Has(client, "id") /\ client.id # 0

UpdateClient(p) ==
    \E client \in ClientRecords :
        /\ Enters(p, "updateClient")
        /\ LET s == AfterInit(p)
           IN IF HasClientId(client)
              THEN LET u == Put(s.db.clients, s.db.clientGen, client)
                   IN Returns(s, [s.db EXCEPT !.clients = u.store, !.clientGen = u.gen],
                              [op |-> "updateClient", ok |-> TRUE, arg |-> client,
                               value |-> u.key])
              ELSE Returns(s, s.db,
                           [op |-> "updateClient", ok |-> FALSE, arg |-> client,
                            error |-> "Client ID is required for update"])
        /\ UNCHANGED called

\* (variant: the invoices of the client are deleted with it)
DeleteClientCascade(p) ==
    \E id \in 1..MaxClientId :
        /\ Enters(p, "deleteClient")
        /\ LET s == AfterInit(p)
           IN Returns(s, [s.db EXCEPT !.clients = Delete(@, id),
                                      !.invoices = {i \in @ : i.clientId # id}],
                      [op |-> "deleteClient", ok |-> TRUE, arg |-> id])
        /\ UNCHANGED called

\* (variant: deleteClient tests the id as updateInvoice does)
DeleteClientChecked(p) ==
    \E id \in 1..MaxClientId :
        /\ Enters(p, "deleteClient")
        /\ LET s == AfterInit(p)
           IN IF Contains(s.db.clients, "id", id)
              THEN Returns(s, [s.db EXCEPT !.clients = Delete(@, id)],
                           [op |-> "deleteClient", ok |-> TRUE, arg |-> id])
              ELSE Returns(s, s.db, [op |-> "deleteClient", ok |-> FALSE, arg |-> id,
                                     error |-> "Client not found"])
        /\ UNCHANGED called

DeleteClient(p) ==
    \E id \in 1..MaxClientId :
        /\ Enters(p, "deleteClient")
        /\ LET s == AfterInit(p)
           IN Returns(s, [s.db EXCEPT !.clients = Delete(@, id)],
                      [op |-> "deleteClient", ok |-> TRUE, arg |-> id])
        /\ UNCHANGED called

----------------------------------------------------------------------------
(* Invoice operations *)

GetInvoices(p) ==
    /\ Enters(p, "getInvoices")
    /\ LET s == AfterInit(p)
       IN Returns(s, s.db, [op |-> "getInvoices", ok |-> TRUE, value |-> GetAll(s.db.invoices)])
    /\ UNCHANGED called

GetInvoice(p) ==
    \E id \in 1..MaxInvoiceId :
        /\ Enters(p, "getInvoice")
        /\ LET s == AfterInit(p)
           IN Returns(s, s.db,
                      [op |-> "getInvoice", ok |-> TRUE, arg |-> id,
                       value |-> IF Contains(s.db.invoices, "id", id)
                                 THEN Lookup(s.db.invoices, "id", id) ELSE Undefined])
        /\ UNCHANGED called

\* addInvoice(invoice)
AddInvoiceOf(p, invoice) ==
    /\ Enters(p, "addInvoice")
    /\ LET s == AfterInit(p)
           newInvoice == NewInvoice(invoice)
           a == Add(s.db.invoices, s.db.invoiceGen, newInvoice)
       IN /\ a.key <= MaxInvoiceId
          /\ Returns(s, [s.db EXCEPT !.invoices = a.store, !.invoiceGen = a.gen],
                     [op |-> "addInvoice", ok |-> TRUE,
                      value |-> Spread(newInvoice, [id |-> a.key])])
    /\ UNCHANGED called

AddInvoice(p) == \E invoice \in InvoiceInputs : AddInvoiceOf(p, invoice)

\* (variant: the record read is not tested before the put)
ExistingInvoiceUntested(d, id) == TRUE

\* existingInvoice = await db.get('invoices', id), and its test
ExistingInvoice(d, id) == Contains(d.invoices, "id", id)

\* updateInvoice(id, invoice)
UpdateInvoiceOf(p, id, invoice) ==
    /\ Enters(p, "updateInvoice")
    /\ LET s == AfterInit(p)
       IN IF ~ExistingInvoice(s.db, id)
          THEN Returns(s, s.db, [op |-> "updateInvoice", ok |-> FALSE, arg |-> id,
                                 error |-> "Invoice not found"])
          ELSE LET updatedInvoice == UpdatedInvoice(id, invoice)
                   u == Put(s.db.invoices, s.db.invoiceGen, updatedInvoice)
               IN Returns(s, [s.db EXCEPT !.invoices = u.store, !.invoiceGen = u.gen],
                          [op |-> "updateInvoice", ok |-> TRUE, arg |-> id,
                           from |-> IF Contains(s.db.invoices, "id", id)
                                    THEN Lookup(s.db.invoices, "id", id).status
                                    ELSE "none",
                           to |-> invoice.status, value |-> updatedInvoice])
    /\ UNCHANGED called

UpdateInvoice(p) ==
    \E id \in 1..MaxInvoiceId, invoice \in InvoiceInputs : UpdateInvoiceOf(p, id, invoice)

DeleteInvoice(p) ==
    \E id \in 1..MaxInvoiceId :
        /\ Enters(p, "deleteInvoice")
        /\ LET s == AfterInit(p)
           IN Returns(s, [s.db EXCEPT !.invoices = Delete(@, id)],
                      [op |-> "deleteInvoice", ok |-> TRUE, arg |-> id])
        /\ UNCHANGED called

----------------------------------------------------------------------------
(* Settings operations *)

GetSettings(p) ==
    /\ Enters(p, "getSettings")
    /\ LET s == AfterInit(p)
       IN Returns(s, s.db, Spread([op |-> "getSettings"], GetSettingsOf(s.db)))
    /\ UNCHANGED called

\* updateSettings(settings)
UpdateSettingsOf(p, settings) ==
    /\ Enters(p, "updateSettings")
    /\ LET s == AfterInit(p)
           updatedSettings == Spread([key |-> "company"], settings)
       IN Returns(s, [s.db EXCEPT !.settings = PutSettings(@, updatedSettings)],
                  [op |-> "updateSettings", ok |-> TRUE, arg |-> settings,
                   value |-> updatedSettings])
    /\ called' = called \cup {"updateSettings"}

UpdateSettings(p) == \E settings \in SettingsInputs : UpdateSettingsOf(p, settings)

----------------------------------------------------------------------------
(* Backup and restore *)

Backup(p) ==
    /\ Enters(p, "backup")
    /\ LET s == AfterInit(p)
       IN Returns(s, s.db, Spread([op |-> "backup"], BackupOf(s.db)))
    /\ UNCHANGED called

\* restore(backupData)
RestoreOfText(p, text) ==
    /\ Enters(p, "restore")
    /\ LET s == AfterInit(p)
           r == RestoreOf(s.db, text)
       IN Returns(s, r.db,
                  IF r.ok THEN [op |-> "restore", ok |-> TRUE, arg |-> text]
                  ELSE [op |-> "restore", ok |-> FALSE, arg |-> text,
                        error |-> r.error])
    /\ called' = called \cup {"restore"}

\* the backup of the store as task p finds it, if backup() resolves on it
OwnBackups(p) ==
    LET own == BackupOf(OpenDB(idb))
    IN IF own.ok THEN {own.value} ELSE {}

\* the file restored is one the user picked, or the backup of the store as it is
Restore(p) == \E text \in BackupFiles \cup OwnBackups(p) : RestoreOfText(p, text)

----------------------------------------------------------------------------
(* clearDatabase *)

\* close the handle, unset it, and ask for the database to be deleted
ClearDatabase(p) ==
    /\ Idle(p)
    /\ conns' = conns \ {handle}
    /\ handle' = 0
    /\ requests' = Append(requests, DeleteRequest(p))
    /\ last' = [op |-> "await", ok |-> TRUE]
    /\ UNCHANGED <<idb, called, forms, awaiting>>

\* (variant: deleteDB leaves the database as it is)
DeleteDBKeepsData(p) ==
    /\ requests # <<>> /\ Head(requests) = DeleteRequest(p)
    /\ conns = {}
    /\ IF handle = 0
       THEN /\ requests' = Append(Tail(requests), OpenRequest(p, "clearDatabase"))
            /\ last' = [op |-> "await", ok |-> TRUE]
       ELSE /\ requests' = Tail(requests)
            /\ last' = [op |-> "clearDatabase", ok |-> TRUE, value |-> TRUE]
    /\ UNCHANGED <<handle, conns, idb, called, forms, awaiting>>

\* deleteDB is served once no connection is open; the task goes on to
\* `await this.init()`
DeleteDB(p) ==
    /\ requests # <<>> /\ Head(requests) = DeleteRequest(p)
    /\ conns = {}
    /\ idb' = NoDatabase
    /\ IF handle = 0
       THEN /\ requests' = Append(Tail(requests), OpenRequest(p, "clearDatabase"))
            /\ last' = [op |-> "await", ok |-> TRUE]
       ELSE /\ requests' = Tail(requests)
            /\ last' = [op |-> "clearDatabase", ok |-> TRUE, value |-> TRUE]
    /\ UNCHANGED <<handle, conns, called, forms, awaiting>>

\* the open request of clearDatabase's init() is served: return true
ClearDatabaseDone(p) ==
    /\ Served(p, "clearDatabase")
    /\ LET s == AfterInit(p)
       IN Returns(s, s.db, [op |-> "clearDatabase", ok |-> TRUE, value |-> TRUE])
    /\ UNCHANGED called

----------------------------------------------------------------------------

(* The page using the store one call after the other: a single task, every *)
(* operation awaited before the next is started.                           *)

Caller == CHOOSE p \in Procs : \A q \in Procs : p <= q

Next ==
    \E p \in {Caller} :
        \/ CallOpenDB(p, Ops)
        \/ InitCall(p)
        \/ GetClients(p)
        \/ GetClient(p)
        \/ AddClient(p)
        \/ UpdateClient(p)
        \/ DeleteClient(p)
        \/ GetInvoices(p)
        \/ GetInvoice(p)
        \/ AddInvoice(p)
        \/ UpdateInvoice(p)
        \/ DeleteInvoice(p)
        \/ GetSettings(p)
        \/ UpdateSettings(p)
        \/ Backup(p)
        \/ Restore(p)
        \/ ClearDatabase(p)
        \/ DeleteDB(p)
        \/ ClearDatabaseDone(p)

Spec == Init /\ [][Next]_vars

(* Several tasks of the page starting store operations without waiting for *)
(* one another, as the effects of a page do on load.                        *)

RaceOps == {"init", "getSettings", "addClient"}

RaceNext ==
    \E p \in Procs :
        \/ CallOpenDB(p, RaceOps)
        \/ InitCall(p)
        \/ AddClient(p)
        \/ GetSettings(p)
        \/ ClearDatabase(p)
        \/ DeleteDB(p)
        \/ ClearDatabaseDone(p)

RaceSpec == Init /\ [][RaceNext]_vars

(* The invoice page: invoices of every status, and the page's status menu. *)

\* handleStatusChange(newStatus): the invoice the page shows, with the status
\* picked, goes to updateInvoice under its own id
HandleStatusChange(p) ==
    \E invoice \in idb.invoices, newStatus \in Statuses :
        UpdateInvoiceOf(p, invoice.id, Spread(invoice, [status |-> newStatus]))

StatusNext ==
    \E p \in {Caller} :
        \/ CallOpenDB(p, Ops)
        \/ InitCall(p)
        \/ AddClient(p)
        \/ DeleteClient(p)
        \/ GetInvoice(p)
        \/ \E invoice \in StatusInputs : AddInvoiceOf(p, invoice)
        \/ HandleStatusChange(p)
        \/ DeleteInvoice(p)
        \/ GetSettings(p)
        \/ UpdateSettings(p)
        \/ Backup(p)
        \/ Restore(p)
        \/ ClearDatabase(p)
        \/ DeleteDB(p)
        \/ ClearDatabaseDone(p)

StatusSpec == Init /\ [][StatusNext]_vars

(* The settings page and the backup page: the Settings record written     *)
(* whole or in part, saved to a file, restored and wiped.                  *)

SettingsNext ==
    \E p \in {Caller} :
        \/ CallOpenDB(p, Ops)
        \/ InitCall(p)
        \/ AddClient(p)
        \/ GetSettings(p)
        \/ \E settings \in SettingsInputs \cup {PartialSettings} :
              UpdateSettingsOf(p, settings)
        \/ Backup(p)
        \/ Restore(p)
        \/ ClearDatabase(p)
        \/ DeleteDB(p)
        \/ ClearDatabaseDone(p)

SettingsSpec == Init /\ [][SettingsNext]_vars

(* The store on a host that may reject what the store asks of it: openDB,  *)
(* deleteDB, a request on an object store, a call of the Cache Storage.    *)

\* the failure openDB rejects with on a host without persistent storage (the
\* store passes it on as it is), the failure of a rejected request and the
\* failure of a rejected Cache Storage call
StorageUnavailable == "StorageUnavailable"
RequestFailure == "AbortError"
CacheFailure == "CacheError"

\* the requests an operation makes of the database after `await this.init()`
StepsOf(o) ==
    CASE o = "getClients" -> <<"getAll clients">>
      [] o = "getClient" -> <<"get clients">>
      [] o = "addClient" -> <<"add clients">>
      [] o = "updateClient" -> <<"put clients">>
      [] o = "deleteClient" -> <<"delete clients">>
      [] o = "getInvoices" -> <<"getAll invoices">>
      [] o = "getInvoice" -> <<"get invoices">>
      [] o = "addInvoice" -> <<"add invoices">>
      [] o = "updateInvoice" -> <<"get invoices", "put invoices">>
      [] o = "deleteInvoice" -> <<"delete invoices">>
      [] o = "getSettings" -> <<"get settings">>
      [] o = "updateSettings" -> <<"put settings">>
      [] o = "backup" -> <<"getAll clients", "getAll invoices", "get settings">>

\* (variant: the failure is logged and the operation resolves)
RejectsSwallowed(o, f, steps) == [op |-> o, ok |-> TRUE, failed |-> f, steps |-> steps]

\* no try/catch around the awaits, or a catch that throws the error again:
\* the promise of operation o rejects with the failure f of the last of the
\* steps it attempted
Rejects(o, f, steps) ==
    [op |-> o, ok |-> FALSE, error |-> f, failed |-> f, steps |-> steps]

\* the operations counted as having been called
Calls(o) == {o} \cap {"updateSettings", "restore"}

\* (variant: the handle is assigned although openDB rejected)
AfterRejectedOpenSetsHandle(p) ==
    [handle |-> NewConn, conns |-> conns, requests |-> Tail(requests), db |-> idb]

\* `this.db = await openDB(...)` with openDB rejecting: the assignment does
\* not happen and nothing is created
AfterRejectedOpen(p) ==
    [handle |-> handle, conns |-> conns, requests |-> Tail(requests), db |-> idb]

\* openDB rejects: `await this.init()` throws in the operation that waited
OpenRejected(p) ==
    \E o \in Ops \cup {"clearDatabase"} :
        /\ Served(p, o)
        /\ LET s == AfterRejectedOpen(p)
           IN Returns(s, s.db, Rejects(o, StorageUnavailable, <<"openDB">>))
        /\ called' = called \cup Calls(o)

\* a request of an operation other than restore is rejected: every write is
\* the last request of its operation, so the database stays as opened
StepRejected(p) ==
    \E o \in Ops \ {"init", "restore"} :
        \E n \in 1..Len(StepsOf(o)) :
            /\ Enters(p, o)
            /\ LET s == AfterInit(p)
               IN /\ (o = "updateInvoice" /\ n = 2) => s.db.invoices # {}
                  /\ Returns(s, s.db, Rejects(o, RequestFailure, SubSeq(StepsOf(o), 1, n)))
            /\ called' = called \cup Calls(o)

\* the requests restore makes for a parsed document, in order
RestoreSteps(backup) ==
    LET adds(store) ==
            IF Has(backup, store)
            THEN [i \in 1..Len(backup[store]) |->
                     [do |-> "add", store |-> store, at |-> i, rec |-> backup[store][i]]]
            ELSE <<>>
    IN <<[do |-> "clear", store |-> "clients"], [do |-> "clear", store |-> "invoices"],
         [do |-> "clear", store |-> "settings"]>>
       \o adds("clients") \o adds("invoices")
       \o (IF Has(backup, "settings")
           THEN <<[do |-> "put", store |-> "settings",
                   rec |-> Spread([key |-> "company"], backup.settings)]>>
           ELSE <<>>)

\* restore from its n-th request on, on database d; the request at failAt is
\* rejected by the host, an add may be rejected by the store
RECURSIVE RunSteps(_, _, _, _)
RunSteps(d, steps, n, failAt) ==
    IF n > Len(steps) THEN [ok |-> TRUE, db |-> d, log |-> steps]
    ELSE LET st == steps[n]
             log == SubSeq(steps, 1, n)
             gen == IF st.store = "clients" THEN "clientGen" ELSE "invoiceGen"
             a == Add(d[st.store], d[gen], st.rec)
         IN IF n = failAt
            THEN [ok |-> FALSE, error |-> RequestFailure, db |-> d, log |-> log]
            ELSE IF st.do = "clear"
            THEN RunSteps([d EXCEPT ![st.store] = {}], steps, n + 1, failAt)
            ELSE IF st.do = "put"
            THEN RunSteps([d EXCEPT !.settings = PutSettings(@, st.rec)], steps, n + 1, failAt)
            ELSE IF a.ok
            THEN RunSteps([d EXCEPT ![st.store] = a.store, ![gen] = a.gen],
                          steps, n + 1, failAt)
            ELSE [ok |-> FALSE, error |-> "ConstraintError", db |-> d, log |-> log]

\* restore(backupData), any one of its requests possibly rejected
RestoreStepwise(p) ==
    /\ Enters(p, "restore")
    /\ LET s == AfterInit(p)
           own == BackupOf(s.db)
       IN \E text \in BackupFiles \cup (IF own.ok THEN {own.value} ELSE {}) :
            IF ~Parse(text).ok
            THEN Returns(s, s.db, Spread(Rejects("restore", "SyntaxError", <<>>),
                                         [arg |-> text]))
            ELSE LET steps == RestoreSteps(Parse(text).value)
                 IN \E failAt \in 0..Len(steps) :
                      LET r == RunSteps(s.db, steps, 1, failAt)
                      IN Returns(s, r.db,
                                 IF r.ok
                                 THEN [op |-> "restore", ok |-> TRUE, arg |-> text,
                                       steps |-> r.log]
                                 ELSE Spread(Rejects("restore", r.error, r.log),
                                             [arg |-> text]))
    /\ called' = called \cup {"restore"}

\* deleteDB rejects: clearDatabase's catch logs the error and throws it again
DeleteDBRejected(p) ==
    /\ requests # <<>> /\ Head(requests) = DeleteRequest(p)
    /\ requests' = Tail(requests)
    /\ last' = Rejects("clearDatabase", RequestFailure, <<"deleteDB">>)
    /\ UNCHANGED <<handle, conns, idb, called, forms, awaiting>>

\* deleteDB is served and caches.keys() rejects: the inner catch logs the
\* error and clearDatabase goes on to `await this.init()`
CachesRejected(p) ==
    /\ requests # <<>> /\ Head(requests) = DeleteRequest(p)
    /\ conns = {} /\ handle = 0
    /\ idb' = NoDatabase
    /\ requests' = Append(Tail(requests), OpenRequest(p, "clearDatabase"))
    /\ last' = [op |-> "await", ok |-> TRUE, failed |-> CacheFailure,
                steps |-> <<"deleteDB", "caches.keys">>]
    /\ UNCHANGED <<handle, conns, called, forms, awaiting>>

FaultNext ==
    \E p \in {Caller} :
        \/ CallOpenDB(p, Ops)
        \/ OpenRejected(p)
        \/ InitCall(p)
        \/ AddClient(p)
        \/ \E invoice \in {i \in InvoiceInputs : i.items = <<NoAmount>>} :
              AddInvoiceOf(p, invoice)
        \/ GetSettings(p)
        \/ StepRejected(p)
        \/ RestoreStepwise(p)
        \/ ClearDatabase(p)
        \/ DeleteDB(p)
        \/ DeleteDBRejected(p)
        \/ CachesRejected(p)
        \/ ClearDatabaseDone(p)

FaultSpec == Init /\ [][FaultNext]_vars

(* The invoice forms handing over invoices at the edges of the total. *)

TotalsNext ==
    \E p \in {Caller} :
        \/ CallOpenDB(p, Ops)
        \/ InitCall(p)
        \/ \E invoice \in EdgeInputs : AddInvoiceOf(p, invoice)
        \/ \E id \in 1..MaxInvoiceId, invoice \in EdgeInputs :
              UpdateInvoiceOf(p, id, invoice)
        \/ GetInvoice(p)
        \/ DeleteInvoice(p)
        \/ Backup(p)
        \/ Restore(p)
        \/ ClearDatabase(p)
        \/ DeleteDB(p)
        \/ ClearDatabaseDone(p)

TotalsSpec == Init /\ [][TotalsNext]_vars

(* The New Invoice page: each task of the page may have the form mounted.  *)
(* The form reads the stored invoices once, in an effect after mounting,   *)
(* to derive its invoice number, and hands its data to addInvoice when it  *)
(* is submitted.                                                           *)

\* the month the page runs in, and another month a user may date an invoice in
CurrentMonth == "2026-11"
OtherMonth == "2026-10"

\* `INV-${year}${month}-${String(sequence).padStart(3, '0')}`
InvoiceNumber(sequence) == <<"INV", CurrentMonth, sequence>>

\* the invoices whose date lies in the current month; a record without a
\* date gives an Invalid Date, whose year compares unequal
RECURSIVE CurrentMonthInvoices(_)
CurrentMonthInvoices(invoices) ==
    IF invoices = <<>> THEN <<>>
    ELSE (IF Has(Head(invoices), "date") /\ Head(invoices).date = CurrentMonth
          THEN <<Head(invoices)>> ELSE <<>>) \o CurrentMonthInvoices(Tail(invoices))

\* (variant: the number follows the greatest sequence in use)
RECURSIVE GenerateAfterLast(_)
GenerateAfterLast(invoices) ==
    IF invoices = <<>> THEN InvoiceNumber(1)
    ELSE LET rest == GenerateAfterLast(Tail(invoices))
             inv == Head(invoices)
         IN IF Has(inv, "number") /\ Len(inv.number) = 3 /\ inv.number[3] >= rest[3]
            THEN InvoiceNumber(inv.number[3] + 1) ELSE rest

\* sequence = currentMonthInvoices.length + 1
GenerateInvoiceNumber(invoices) == InvoiceNumber(Len(CurrentMonthInvoices(invoices)) + 1)

\* { description: '', quantity: 1, rate: 0, amount: 0 }
EmptyItem == [description |-> "", quantity |-> Num(1), rate |-> Num(0), amount |-> Num(0)]

\* useState<Invoice>({number: '', date: today, ...}): the form as it mounts
MountForm(p) ==
    /\ forms[p] = NoForm
    /\ forms' = [forms EXCEPT ![p] =
                    [mounted |-> TRUE, number |-> <<>>, items |-> <<EmptyItem>>,
                     subtotal |-> Num(0), discount |-> Num(0), total |-> Num(0)]]
    /\ last' = [op |-> "mount", ok |-> TRUE]
    /\ UNCHANGED <<handle, conns, requests, idb, called, awaiting>>

\* the effect run once after mounting: getInvoices, then setFormData with the
\* number derived from what was read
NumberEffect(p) ==
    /\ forms[p] # NoForm /\ forms[p].number = <<>>
    /\ Enters(p, "getInvoices")
    /\ LET s == AfterInit(p)
           invoices == GetAll(s.db.invoices)
       IN /\ Settles(s, s.db, [op |-> "getInvoices", ok |-> TRUE, value |-> invoices])
          /\ forms' = [forms EXCEPT ![p].number = GenerateInvoiceNumber(invoices)]
    /\ UNCHANGED called

\* formData: the number, items, discount and totals the form holds and the
\* date the user left or changed
FormData(form, date) ==
    [number |-> form.number, date |-> date, dueDate |-> date, clientId |-> 0,
     items |-> form.items, subtotal |-> form.subtotal, discount |-> form.discount,
     total |-> form.total, status |-> "draft"]

\* handleSubmit: db.addInvoice(formData), then the page of the new invoice
\* replaces the form
HandleSubmit(p) ==
    \E date \in {CurrentMonth, OtherMonth} :
        /\ forms[p] # NoForm
        /\ Enters(p, "addInvoice")
        /\ LET s == AfterInit(p)
               newInvoice == NewInvoice(FormData(forms[p], date))
               a == Add(s.db.invoices, s.db.invoiceGen, newInvoice)
           IN /\ a.key <= MaxSaved
              /\ Settles(s, [s.db EXCEPT !.invoices = a.store, !.invoiceGen = a.gen],
                         [op |-> "addInvoice", ok |-> TRUE,
                          value |-> Spread(newInvoice, [id |-> a.key])])
        /\ forms' = [forms EXCEPT ![p] = NoForm]
        /\ UNCHANGED called

FormNext ==
    \E p \in Procs :
        \/ CallOpenDB(p, {"getInvoices"})
        \/ MountForm(p)
        \/ NumberEffect(p)
        \/ HandleSubmit(p)
        \/ DeleteInvoice(p)

FormSpec == Init /\ [][FormNext]_vars

(* The backup page restoring files written by hand, next to the invoice    *)
(* and settings operations.                                                *)

FilesNext ==
    \E p \in {Caller} :
        \/ CallOpenDB(p, Ops)
        \/ InitCall(p)
        \/ AddClient(p)
        \/ \E invoice \in {i \in EdgeInputs : ~Has(i, "discount")} : AddInvoiceOf(p, invoice)
        \/ \E id \in 1..MaxInvoiceId, invoice \in {i \in EdgeInputs : ~Has(i, "discount")} :
              UpdateInvoiceOf(p, id, invoice)
        \/ DeleteInvoice(p)
        \/ GetSettings(p)
        \/ \E settings \in {CustomSettings, KeyedSettings} : UpdateSettingsOf(p, settings)
        \/ \E text \in HandWrittenFiles : RestoreOfText(p, text)
        \/ Backup(p)
        \/ ClearDatabase(p)
        \/ DeleteDB(p)
        \/ ClearDatabaseDone(p)

FilesSpec == Init /\ [][FilesNext]_vars

(***************************************************************************)
(* The New Invoice form being edited: src/app/invoices/new/page.tsx        *)
(***************************************************************************)

MaxItems == 2

\* what the user types into the quantity, rate and description inputs
ItemFields == {"quantity", "rate", "description"}

EditValue(field) ==
    CASE field = "quantity" -> Num(2)
      [] field = "rate" -> Num(500)
      [] OTHER -> "Work"

\* what the user types into the discount input
DiscountTexts == {"", "100", "abc"}

\* Number(value) of the texts above
NumberOf(text) ==
    CASE text = "" -> Num(0)
      [] text = "100" -> Num(100)
      [] OTHER -> NaN

\* items.reduce((sum, item) => sum + item.amount, 0)
FormSubtotal(items) == SumAmounts(items, Num(0))

\* handleItemChange: the literal reads quantity and rate of newItems[index]
\* before the assignment replaces it, that is, of the item as it was
ChangedItem(item, field, value) ==
    Spread(Spread(item, [f \in {field} |-> value]),
           [amount |-> IF field \in {"quantity", "rate"}
                       THEN JsMul(ToNumber(item.quantity), ToNumber(item.rate))
                       ELSE item.amount])

HandleItemChange(p) ==
    \E index \in 1..MaxItems, field \in ItemFields :
        /\ forms[p] # NoForm
        /\ index <= Len(forms[p].items)
        /\ LET newItems == [forms[p].items EXCEPT
                              ![index] = ChangedItem(@, field, EditValue(field))]
               subtotal == FormSubtotal(newItems)
           IN forms' = [forms EXCEPT ![p] =
                           [@ EXCEPT !.items = newItems, !.subtotal = subtotal,
                                     !.total = JsSub(subtotal, forms[p].discount)]]
        /\ UNCHANGED <<handle, conns, requests, idb, called, last, awaiting>>

\* addItem: items: [...prev.items, {description: '', quantity: 1, rate: 0, amount: 0}]
AddItem(p) ==
    /\ forms[p] # NoForm
    /\ Len(forms[p].items) < MaxItems
    /\ forms' = [forms EXCEPT ![p] = [@ EXCEPT !.items = Append(@, EmptyItem)]]
    /\ UNCHANGED <<handle, conns, requests, idb, called, last, awaiting>>

\* formData.items.filter((_, i) => i !== index)
WithoutItem(items, index) ==
    [i \in 1..(Len(items) - 1) |-> IF i < index THEN items[i] ELSE items[i + 1]]

RemoveItem(p) ==
    \E index \in 1..MaxItems :
        /\ forms[p] # NoForm
        /\ index <= Len(forms[p].items)
        /\ LET newItems == WithoutItem(forms[p].items, index)
               subtotal == FormSubtotal(newItems)
           IN forms' = [forms EXCEPT ![p] =
                           [@ EXCEPT !.items = newItems, !.subtotal = subtotal,
                                     !.total = JsSub(subtotal, forms[p].discount)]]
        /\ UNCHANGED <<handle, conns, requests, idb, called, last, awaiting>>

\* handleDiscountChange: discount = Number(value) || 0; total: prev.subtotal - discount
HandleDiscountChange(p) ==
    \E text \in DiscountTexts :
        /\ forms[p] # NoForm
        /\ LET discount == OrZero(NumberOf(text))
           IN forms' = [forms EXCEPT ![p] =
                           [@ EXCEPT !.discount = discount,
                                     !.total = JsSub(forms[p].subtotal, discount)]]
        /\ UNCHANGED <<handle, conns, requests, idb, called, last, awaiting>>

\* the form is opened while the store holds no invoice: one invoice is
\* written in a behaviour
EditNext ==
    \E p \in {Caller} :
        \/ CallOpenDB(p, {"addInvoice"})
        \/ OpenDB(idb).invoices = {} /\ MountForm(p)
        \/ HandleItemChange(p)
        \/ AddItem(p)
        \/ RemoveItem(p)
        \/ HandleDiscountChange(p)
        \/ HandleSubmit(p)

EditSpec == Init /\ [][EditNext]_vars

(* Clients written by updateClient alone: no addClient and no restore, so   *)
(* that a client is stored only if updateClient inserted it.                *)

ClientsNext ==
    \E p \in {Caller} :
        \/ CallOpenDB(p, Ops)
        \/ InitCall(p)
        \/ GetClients(p)
        \/ UpdateClient(p)
        \/ DeleteClient(p)
        \/ \E invoice \in {i \in EdgeInputs : ~Has(i, "discount")} : AddInvoiceOf(p, invoice)
        \/ \E id \in 1..MaxInvoiceId, invoice \in {i \in EdgeInputs : ~Has(i, "discount")} :
              UpdateInvoiceOf(p, id, invoice)
        \/ DeleteInvoice(p)

ClientsSpec == Init /\ [][ClientsNext]_vars

(***************************************************************************)
(* The Backup & Restore page: src/app/settings/backup/page.tsx             *)
(***************************************************************************)

\* useState(false): the page as it mounts, and as a reload leaves it
BackupPage == [mounted |-> TRUE, isRestoring |-> FALSE, reader |-> "none"]

MountBackupPage(p) ==
    /\ forms[p] = NoForm
    /\ forms' = [forms EXCEPT ![p] = BackupPage]
    /\ last' = [op |-> "mount", ok |-> TRUE]
    /\ UNCHANGED <<handle, conns, requests, idb, called, awaiting>>

\* the files the user may pick
PickedFiles == BackupFiles \cup {DocClientsNumber}

\* handleRestore: the input is disabled while isRestoring; with a file
\* picked, setIsRestoring(true), a new FileReader and readAsText(file)
HandleRestore(p) ==
    \E file \in PickedFiles :
        /\ forms[p] # NoForm
        /\ ~forms[p].isRestoring
        /\ forms' = [forms EXCEPT ![p] =
                        [mounted |-> TRUE, isRestoring |-> TRUE, reader |-> "reading",
                         file |-> file]]
        /\ last' = [op |-> "readAsText", ok |-> TRUE]
        /\ UNCHANGED <<handle, conns, requests, idb, called, awaiting>>

\* the reader's load event: reader.onload starts and calls db.restore
ReaderLoad(p) ==
    /\ forms[p] # NoForm
    /\ forms[p].reader = "reading"
    /\ forms' = [forms EXCEPT ![p] = [@ EXCEPT !.reader = "loaded"]]
    /\ last' = [op |-> "load", ok |-> TRUE]
    /\ UNCHANGED <<handle, conns, requests, idb, called, awaiting>>

\* the reader's error event: the file could not be read; the page sets no
\* onerror handler and onload is not called
ReaderError(p) ==
    /\ forms[p] # NoForm
    /\ forms[p].reader = "reading"
    /\ forms' = [forms EXCEPT ![p] = [@ EXCEPT !.reader = "failed"]]
    /\ last' = [op |-> "error", ok |-> TRUE]
    /\ UNCHANGED <<handle, conns, requests, idb, called, awaiting>>

\* init() of the restore that onload awaits finds the handle unset
OnLoadOpens(p) ==
    /\ forms[p] # NoForm
    /\ forms[p].reader = "loaded"
    /\ CallOpenDB(p, {"restore"})

\* db.restore settles in onload: resolved, the page alerts and reloads (a new
\* page, service and all); rejected, it alerts; finally setIsRestoring(false)
OnLoadRestored(p) ==
    /\ forms[p] # NoForm
    /\ forms[p].reader = "loaded"
    /\ Enters(p, "restore")
    /\ LET s == AfterInit(p)
           r == RestoreOf(s.db, forms[p].file)
       IN IF r.ok
          THEN /\ handle' = 0
               /\ conns' = {}
               /\ requests' = s.requests
               /\ idb' = r.db
               /\ last' = [op |-> "restore", ok |-> TRUE, arg |-> forms[p].file]
               /\ UNCHANGED awaiting
          ELSE Settles(s, r.db, [op |-> "restore", ok |-> FALSE, arg |-> forms[p].file,
                                 error |-> r.error])
    /\ forms' = [forms EXCEPT ![p] = BackupPage]
    /\ called' = called \cup {"restore"}

BackupPageNext ==
    \E p \in {Caller} :
        \/ MountBackupPage(p)
        \/ HandleRestore(p)
        \/ ReaderLoad(p)
        \/ ReaderError(p)
        \/ OnLoadOpens(p)
        \/ OnLoadRestored(p)

\* the browser delivers the reader's event and serves the open request, and
\* the restore that was started settles
BackupPageFairness ==
    \A p \in {Caller} :
        /\ WF_vars(ReaderLoad(p) \/ ReaderError(p))
        /\ WF_vars(OnLoadOpens(p))
        /\ WF_vars(OnLoadRestored(p))

BackupPageSpec == Init /\ [][BackupPageNext]_vars

BackupPageFairSpec == BackupPageSpec /\ BackupPageFairness

(***************************************************************************)
(* updateInvoice and backup followed await by await, each await a          *)
(* transaction of its own, next to the operations of other tasks.          *)
(***************************************************************************)

\* the invoice another task adds and the one updateInvoice is handed
LinkedInvoice == [clientId |-> 1, status |-> "draft", items |-> <<Good>>, discount |-> Num(0)]
UpdateInputs ==
    {Spread(LinkedInvoice, [status |-> st, discount |-> Num(100)]) : st \in {"sent", "paid"}}

\* updateInvoice up to `await db.get('invoices', id)`: rejects if nothing is
\* stored under id, otherwise goes on to the put with what it was handed
UpdateInvoiceGet(p) ==
    \E id \in 1..MaxInvoiceId, invoice \in UpdateInputs :
        /\ Enters(p, "updateInvoice")
        /\ LET s == AfterInit(p)
           IN IF ~ExistingInvoice(s.db, id)
              THEN Settles(s, s.db, [op |-> "updateInvoice", ok |-> FALSE, arg |-> id,
                                     error |-> "Invoice not found"])
              ELSE /\ handle' = s.handle
                   /\ conns' = s.conns
                   /\ requests' = s.requests
                   /\ idb' = s.db
                   /\ last' = [op |-> "await", ok |-> TRUE]
                   /\ awaiting' = [awaiting EXCEPT ![p] =
                                      [op |-> "updateInvoice", id |-> id,
                                       invoice |-> invoice]]
        /\ UNCHANGED <<called, forms>>

\* `await db.put('invoices', updatedInvoice)` and the return
UpdateInvoicePut(p) ==
    /\ awaiting[p].op = "updateInvoice"
    /\ LET updatedInvoice == UpdatedInvoice(awaiting[p].id, awaiting[p].invoice)
           u == Put(idb.invoices, idb.invoiceGen, updatedInvoice)
           d == [idb EXCEPT !.invoices = u.store, !.invoiceGen = u.gen]
       IN /\ idb' = d
          /\ last' = [op |-> "updateInvoice", ok |-> TRUE, arg |-> awaiting[p].id,
                      value |-> updatedInvoice]
          /\ awaiting' = [q \in Procs |->
                             IF q = p THEN NoLocals
                             ELSE IF awaiting[q].op = "backup"
                                  THEN [awaiting[q] EXCEPT !.seen = @ \cup {Contents(d)}]
                                  ELSE awaiting[q]]
    /\ UNCHANGED <<handle, conns, requests, called, forms>>

\* backup() up to `clients: await this.getClients()`
BackupGetClients(p) ==
    /\ Enters(p, "backup")
    /\ LET s == AfterInit(p)
       IN /\ handle' = s.handle
          /\ conns' = s.conns
          /\ requests' = s.requests
          /\ idb' = s.db
          /\ last' = [op |-> "await", ok |-> TRUE]
          /\ awaiting' = [awaiting EXCEPT ![p] =
                             [op |-> "backup", at |-> "invoices",
                              clients |-> GetAll(s.db.clients), invoices |-> <<>>,
                              seen |-> {Contents(s.db)}]]
    /\ UNCHANGED <<called, forms>>

\* `invoices: await this.getInvoices()`
BackupGetInvoices(p) ==
    /\ awaiting[p].op = "backup" /\ awaiting[p].at = "invoices"
    /\ handle # 0
    /\ awaiting' = [awaiting EXCEPT ![p] =
                       [@ EXCEPT !.at = "settings", !.invoices = GetAll(idb.invoices)]]
    /\ last' = [op |-> "await", ok |-> TRUE]
    /\ UNCHANGED <<handle, conns, requests, idb, called, forms>>

\* `settings: await this.getSettings()`, JSON.stringify and the return
BackupGetSettings(p) ==
    /\ awaiting[p].op = "backup" /\ awaiting[p].at = "settings"
    /\ handle # 0
    /\ LET s == GetSettingsOf(idb)
       IN last' = IF s.ok
                  THEN [op |-> "backup", ok |-> TRUE,
                        value |-> Stringify([clients |-> awaiting[p].clients,
                                             invoices |-> awaiting[p].invoices,
                                             settings |-> s.value])]
                  ELSE Spread([op |-> "backup"], s)
    /\ awaiting' = [awaiting EXCEPT ![p] = NoLocals]
    /\ UNCHANGED <<handle, conns, requests, idb, called, forms>>

\* tasks updating, adding and deleting invoices side by side
UpdateNext ==
    \E p \in Procs :
        \/ awaiting[p] = NoLocals /\ CallOpenDB(p, {"addInvoice", "updateInvoice", "deleteInvoice"})
        \/ awaiting[p] = NoLocals /\ AddInvoiceOf(p, LinkedInvoice)
        \/ awaiting[p] = NoLocals /\ DeleteInvoice(p)
        \/ awaiting[p] = NoLocals /\ UpdateInvoiceGet(p)
        \/ UpdateInvoicePut(p)

UpdateSpec == Init /\ [][UpdateNext]_vars

\* one task taking backups while the other tasks add clients and invoices
\* and restore a file
SnapshotNext ==
    \/ CallOpenDB(Caller, {"backup"})
    \/ awaiting[Caller] = NoLocals /\ BackupGetClients(Caller)
    \/ BackupGetInvoices(Caller)
    \/ BackupGetSettings(Caller)
    \/ \E p \in Procs \ {Caller} :
          \/ AddClient(p)
          \/ AddInvoiceOf(p, LinkedInvoice)
          \/ RestoreOfText(p, DocCustom)

SnapshotSpec == Init /\ [][SnapshotNext]_vars

----------------------------------------------------------------------------
(* Properties *)

\* the record the invoices store holds under the id of the record returned
Stored(inv) == Lookup(idb.invoices, "id", inv.id)
WroteInvoice == last.op \in {"addInvoice", "updateInvoice"} /\ last.ok

RECURSIVE SumQuantityRate(_)
SumQuantityRate(items) ==
    IF items = <<>> THEN Num(0)
    ELSE JsAdd(JsMul(Head(items).quantity, Head(items).rate), SumQuantityRate(Tail(items)))

\* C1: the invoice that addInvoice / updateInvoice persists and returns has
\* subtotal = sum of quantity * rate over its items and total = subtotal -
\* discount, whatever subtotal and total the caller sent.
C1_TotalsFromQuantityRate ==
    WroteInvoice =>
        /\ Stored(last.value) = last.value
        /\ last.value.subtotal = SumQuantityRate(last.value.items)
        /\ last.value.total = JsSub(last.value.subtotal, OrZero(Get(last.value, "discount")))

\* C2: every item of the invoice that addInvoice / updateInvoice stores has
\* amount = quantity * rate; items [{quantity 2, rate 500}] with discount 100
\* are stored with amount 1000, subtotal 1000 and total 900.
C2_AmountsRederived ==
    WroteInvoice =>
        LET inv == Stored(last.value)
        IN /\ \A i \in DOMAIN inv.items :
                Get(inv.items[i], "amount") = JsMul(inv.items[i].quantity, inv.items[i].rate)
           /\ (Len(inv.items) = 1 /\ inv.items[1].quantity = Num(2)
                 /\ inv.items[1].rate = Num(500) /\ Get(inv, "discount") = Num(100))
              => (inv.subtotal = Num(1000) /\ inv.total = Num(900))

\* the step restores the backup of the store as it is
RestoresOwnBackup == last'.op = "restore" /\ BackupOf(idb).ok /\ last'.arg = BackupOf(idb).value

\* C3: b1 = backup(), restore(b1), b2 = backup() gives b2 = b1, and the
\* clients, invoices and settings collections are as before the restore.
C3_BackupRestoreRoundTrip ==
    [][RestoresOwnBackup =>
         /\ last'.ok
         /\ BackupOf(idb') = BackupOf(idb)
         /\ idb'.clients = idb.clients
         /\ idb'.invoices = idb.invoices
         /\ idb'.settings = idb.settings]_vars

\* the second backup of C3 alone: b2 = b1
C3_SecondBackupEqual ==
    [][RestoresOwnBackup => (last'.ok /\ BackupOf(idb') = BackupOf(idb))]_vars

\* the database as init() leaves it: created and seeded if it did not exist
AsOpened == OpenDB(idb)

\* C4: updateInvoice(id, record) with no invoice stored under id rejects with
\* 'Invoice not found' and leaves every collection as it was.
C4_UpdateMissingInvoiceRejects ==
    [][(last'.op = "updateInvoice" /\ ~Contains(idb.invoices, "id", last'.arg)) =>
         /\ ~last'.ok
         /\ last'.error = "Invoice not found"
         /\ idb' = AsOpened
         /\ idb'.invoices = idb.invoices /\ idb'.clients = idb.clients]_vars

C4_Witness ==
    /\ last.op = "updateInvoice" /\ ~last.ok
    /\ ~Contains(idb.invoices, "id", last.arg)
    /\ idb.invoiceGen > last.arg
    /\ idb.clients # {}

\* C5: updateClient(record) with a record that has no id rejects with
\* 'Client ID is required for update' and writes nothing.
C5_UpdateClientWithoutIdRejects ==
    [][(last'.op = "updateClient" /\ ~Has(last'.arg, "id")) =>
         /\ ~last'.ok
         /\ last'.error = "Client ID is required for update"
         /\ idb' = AsOpened
         /\ idb'.clients = idb.clients]_vars

C5_Witness ==
    /\ last.op = "updateClient" /\ ~last.ok /\ ~Has(last.arg, "id")
    /\ idb.clients # {}

\* C6: deleteClient(id) removes the client with that id and nothing else;
\* every invoice, also one whose clientId is id, stays as it was.
C6_DeleteClientKeepsInvoices ==
    [][last'.op = "deleteClient" =>
         /\ idb'.clients = {c \in idb.clients : c.id # last'.arg}
         /\ idb'.invoices = idb.invoices
         /\ idb'.settings = AsOpened.settings]_vars

\* an invoice refers to the client just deleted, while another client remains
C6_Witness ==
    /\ last.op = "deleteClient"
    /\ idb.clientGen > last.arg /\ ~Contains(idb.clients, "id", last.arg)
    /\ \E inv \in idb.invoices : inv.clientId = last.arg
    /\ idb.clients # {}

\* C7 as stated: as long as updateSettings has not run, getSettings() returns
\* the seeded default record, whatever else has run.
C7_DefaultUntilUpdateSettings ==
    (last.op = "getSettings" /\ "updateSettings" \notin called) =>
        (last.ok /\ last.value = DefaultSettings)

\* C7 as amended: as long as neither updateSettings nor restore has run,
\* getSettings() returns the seeded default record and never fails.
C7_DefaultUntilSettingsWritten ==
    (last.op = "getSettings" /\ called = {}) =>
        (last.ok /\ last.value = DefaultSettings)

C7_Witness ==
    /\ last.op = "getSettings" /\ last.ok /\ called = {}
    /\ idb.clients # {} /\ idb.invoices # {}

\* C8: with several init() calls started before the first has completed, the
\* database has each of the three stores created once and one default
\* Settings record: the upgrade and the seeding have run once.
C8_UpgradeAndSeedOnce ==
    idb.version # 0 =>
        /\ \A s \in StoreNames : idb.created[s] = 1
        /\ idb.upgrades = 1
        /\ idb.seeds = 1
        /\ idb.settings = {DefaultSettings}

\* two open requests issued while the handle was unset have both been served
C8_Witness == Cardinality(conns) >= 2 /\ idb.version = DBVersion

OpenCalls == {i \in DOMAIN requests : requests[i].kind = "open"}

\* C9: however many operations start while the handle is unset, the database
\* is opened once and the service holds the one connection.
C9_SingleOpenCall ==
    /\ Cardinality(OpenCalls) + Cardinality(conns) <= 1
    /\ conns \subseteq {handle}

\* C10: init() called once a call has completed (the handle is set) returns
\* that handle, opens nothing and changes no collection.
C10_InitIdempotent ==
    [][(last'.op = "init" /\ handle # 0) =>
         /\ last'.value = handle
         /\ ~last'.opened
         /\ UNCHANGED <<handle, conns, requests, idb>>]_vars

C10_Witness ==
    /\ last.op = "init" /\ ~last.opened /\ last.value = handle
    /\ idb.clients # {} /\ idb.invoices # {}

\* the records a parsed backup document lists under one of its fields
Rows(doc, field) ==
    IF Has(doc, field) THEN {doc[field][i] : i \in DOMAIN doc[field]} ELSE {}

\* C11: after a restore that resolves, clients and invoices hold exactly the
\* records of the document's arrays (which carry their ids) and nothing that
\* was stored before; a field the document lacks leaves its collection
\* empty, and without a settings field no Settings record is stored at all.
C11_RestoreReplacesStore ==
    [][(last'.op = "restore" /\ last'.ok) =>
         LET doc == Parse(last'.arg).value
         IN /\ idb'.clients = Rows(doc, "clients")
            /\ idb'.invoices = Rows(doc, "invoices")
            /\ ~Has(doc, "settings") => idb'.settings = {}]_vars

\* a file without invoices and settings restored over a store that had
\* handed out two client keys: one client, no invoice, no Settings record
C11_Witness ==
    /\ last.op = "restore" /\ last.ok /\ last.arg = DocNoSettings
    /\ idb.clientGen >= 2
    /\ idb.clients = {[id |-> 1, name |-> "Acme"]}
    /\ idb.invoices = {} /\ idb.settings = {}

\* the position of the first record of a list whose id an earlier record of
\* the list carries, 0 when there is none
FirstRejected(recs) ==
    LET dup == {n \in DOMAIN recs : \E j \in 1..(n - 1) : recs[j].id = recs[n].id}
    IN IF dup = {} THEN 0 ELSE CHOOSE n \in dup : \A m \in dup : n <= m

\* C12: a restore whose document repeats a client id rejects with the
\* store's error at the repeated record; what was stored before is gone, the
\* clients inserted before the rejected one stay, and nothing is rolled back
\* (no invoice and no Settings record are written after the rejection).
C12_RestoreNotAtomic ==
    [][(/\ last'.op = "restore"
        /\ Parse(last'.arg).ok
        /\ Has(Parse(last'.arg).value, "clients")
        /\ FirstRejected(Parse(last'.arg).value.clients) # 0) =>
         LET recs == Parse(last'.arg).value.clients
             n == FirstRejected(recs)
         IN /\ ~last'.ok
            /\ last'.error = "ConstraintError"
            /\ idb'.clients = {recs[j] : j \in 1..(n - 1)}
            /\ idb'.invoices = {}
            /\ idb'.settings = {}]_vars

\* the restore of the file with the repeated id was rejected over a store
\* that held an invoice: the file's first client is all that is stored
C12_Witness ==
    /\ last.op = "restore" /\ ~last.ok /\ last.error = "ConstraintError"
    /\ last.arg = DocSameId
    /\ idb.invoiceGen >= 1
    /\ idb.clients = {[id |-> 1, name |-> "Acme"]}
    /\ idb.invoices = {} /\ idb.settings = {}

\* C13: whatever status an invoice is stored with and whatever status the
\* record handed to updateInvoice carries, the update resolves and the
\* stored status is the one handed over; and the status stored under an id
\* changes only in an updateInvoice of that id or in a restore, however
\* long ago the invoice was due.
C13_StatusUnrestricted ==
    [][/\ \A inv \in idb.invoices :
            (last'.op = "updateInvoice" /\ last'.arg = inv.id) =>
                /\ last'.ok
                /\ Lookup(idb'.invoices, "id", inv.id).status = last'.to
       /\ \A inv \in idb.invoices :
            (/\ Contains(idb'.invoices, "id", inv.id)
             /\ Lookup(idb'.invoices, "id", inv.id).status # inv.status) =>
                \/ last'.op = "updateInvoice" /\ last'.arg = inv.id
                \/ last'.op = "restore"]_vars

\* a paid invoice due long ago was set back to draft and is stored as draft
C13_Witness ==
    /\ last.op = "updateInvoice" /\ last.ok
    /\ last.from = "paid" /\ last.to = "draft"
    /\ last.value.dueDate = PastDue
    /\ Lookup(idb.invoices, "id", last.arg).status = "draft"

\* the Settings record stored under the singleton key
StoredSettings(d) == Lookup(d.settings, "key", "company")

\* C14: updateSettings(partial) merges into the stored Settings record: the
\* call resolves with the record it stored under the singleton key, which
\* has the fields of the argument, and every field of the record stored
\* before that the argument lacks, with the value it had.
C14_UpdateSettingsMerges ==
    [][last'.op = "updateSettings" =>
         /\ last'.ok
         /\ StoredSettings(idb') = last'.value
         /\ \A k \in DOMAIN last'.arg : last'.value[k] = last'.arg[k]
         /\ \A before \in AsOpened.settings :
              \A k \in DOMAIN before \ DOMAIN last'.arg :
                  Has(last'.value, k) /\ last'.value[k] = before[k]]_vars

\* C14 (amended): updateSettings replaces the Settings record: the call
\* resolves with the record it stored under the singleton key, which is the
\* key and the fields of the argument and nothing else; a field of the
\* record stored before that the argument lacks is gone.
C14_UpdateSettingsReplaces ==
    [][last'.op = "updateSettings" =>
         /\ last'.ok
         /\ StoredSettings(idb') = last'.value
         /\ last'.value = Spread([key |-> "company"], last'.arg)
         /\ DOMAIN StoredSettings(idb') = {"key"} \cup DOMAIN last'.arg]_vars

\* the company name alone was handed over: the stored record has no currency
C14_Witness ==
    /\ last.op = "updateSettings" /\ last.ok /\ last.arg = PartialSettings
    /\ StoredSettings(idb).companyName = "Acme Co"
    /\ ~Has(StoredSettings(idb), "currency")

\* C15: deleteClient(id) and deleteInvoice(id) with an id that is not stored
\* resolve without error and leave clients, invoices and settings as they
\* are (as init() leaves them, when the call is the first to open the
\* database).
C15_DeleteAbsentIsNoOp ==
    [][/\ (last'.op = "deleteClient" /\ ~Contains(idb.clients, "id", last'.arg)) =>
            last'.ok /\ idb' = AsOpened
       /\ (last'.op = "deleteInvoice" /\ ~Contains(idb.invoices, "id", last'.arg)) =>
            last'.ok /\ idb' = AsOpened]_vars

\* deleteClient(2) resolved on a store that never handed out the key 2 and
\* holds a client and an invoice
C15_Witness ==
    /\ last.op = "deleteClient" /\ last.ok /\ last.arg = 2
    /\ idb.clientGen = 2
    /\ Keys(idb.clients, "id") = {1}
    /\ idb.invoices # {} /\ idb.settings # {}

NoRepeat(steps) == \A i, j \in DOMAIN steps : steps[i] = steps[j] => i = j

\* restore request by request, none rejected by the host, ends as RestoreOf
RestoreStepsAgree ==
    \A text \in BackupFiles \ {NotJson} :
        LET r == RestoreOf(idb, text)
            q == RunSteps(idb, RestoreSteps(Parse(text).value), 1, 0)
        IN r.ok = q.ok /\ r.db = q.db

\* C16: the store swallows no failure and retries nothing: when a step of an
\* operation is rejected the operation's promise is rejected with that
\* failure, and no step is attempted twice in one call.
C16_NoSwallowNoRetry ==
    Has(last, "steps") =>
        /\ NoRepeat(last.steps)
        /\ Has(last, "failed") => (~last.ok /\ last.error = last.failed)

\* C16 (amended): the same for every step on the database (openDB, deleteDB
\* and the requests on the object stores); a rejected call of the Cache
\* Storage in clearDatabase is logged and the operation goes on.
C16_NoSwallowOfDatabaseFailure ==
    Has(last, "steps") =>
        /\ NoRepeat(last.steps)
        /\ (Has(last, "failed") /\ last.failed # CacheFailure) =>
               (~last.ok /\ last.error = last.failed)
        /\ (Has(last, "failed") /\ last.failed = CacheFailure) =>
               (last.ok /\ last.op = "await" /\ ~Idle(Caller))

\* restore was rejected by the host at the put of the Settings record, after
\* three clears and one add: it rejected with that failure
C16_Witness ==
    /\ last.op = "restore" /\ ~last.ok /\ last.error = RequestFailure
    /\ Len(last.steps) = 5 /\ last.steps[5].do = "put"
    /\ idb.clients # {} /\ idb.settings = {}

\* C19: when openDB is rejected, init() or the operation that awaited it
\* rejects with that failure (StorageUnavailable); the handle stays unset,
\* no database is created, and the caller's next operation finds the handle
\* unset and calls openDB again.
C19_OpenFailureRejects ==
    [][(Has(last', "failed") /\ last'.failed = StorageUnavailable) =>
         /\ last'.op \in Ops \cup {"clearDatabase"}
         /\ ~last'.ok /\ last'.error = StorageUnavailable
         /\ handle' = 0 /\ conns' = conns /\ idb' = idb
         /\ \A i \in DOMAIN requests' : requests'[i].proc # Caller]_vars

\* getClients on a host where no database was ever created: rejected with
\* the failure of openDB, and the handle is unset
C19_Witness ==
    /\ last.op = "getClients" /\ ~last.ok /\ last.error = StorageUnavailable
    /\ last.steps = <<"openDB">>
    /\ handle = 0 /\ idb = NoDatabase /\ requests = <<>>

\* C18: getSettings() rejects with 'Settings not found' exactly when no
\* record is stored under the key 'company', and otherwise resolves with
\* that record as it is stored; it leaves the database as init() leaves it.
C18_GetSettingsOrNotFound ==
    [][last'.op = "getSettings" =>
         /\ idb' = AsOpened
         /\ IF Contains(AsOpened.settings, "key", "company")
            THEN last'.ok /\ last'.value = Lookup(AsOpened.settings, "key", "company")
            ELSE ~last'.ok /\ last'.error = "Settings not found"]_vars

\* getSettings was rejected on a store that holds a client but, after a
\* restore, no Settings record
C18_Witness ==
    /\ last.op = "getSettings" /\ ~last.ok /\ last.error = "Settings not found"
    /\ idb.settings = {} /\ idb.clients # {}
    /\ "restore" \in called

\* the sum of the amounts of a list of items, as an integer
RECURSIVE AmountSum(_)
AmountSum(items) ==
    IF items = <<>> THEN 0 ELSE Head(items).amount.num + AmountSum(Tail(items))

\* C17: the totals addInvoice and updateInvoice store are subtotal = the sum
\* of the item amounts and total = subtotal - discount, with a missing
\* discount counting as 0 and nothing clamped: an empty item list gives
\* subtotal 0 and total = -discount, a discount below zero raises the total,
\* a discount above the subtotal gives a total below zero, stored as it is.
C17_TotalsAtTheEdges ==
    WroteInvoice =>
        LET inv == Stored(last.value)
            discount == IF Has(inv, "discount") THEN inv.discount.num ELSE 0
        IN /\ inv.subtotal = Num(AmountSum(inv.items))
           /\ inv.total = Num(AmountSum(inv.items) - discount)
           /\ inv.items = <<>> => (inv.subtotal = Num(0) /\ inv.total = Num(0 - discount))
           /\ discount < 0 => inv.total.num > inv.subtotal.num
           /\ discount > inv.subtotal.num => inv.total.num < 0

\* an invoice without items and with a discount of 100 was written over a
\* stored one: subtotal 0 and total -100 are stored
C17_Witness ==
    /\ last.op = "updateInvoice" /\ last.ok
    /\ Stored(last.value).items = <<>>
    /\ Stored(last.value).subtotal = Num(0)
    /\ Stored(last.value).total = Num(-100)

\* the invoices of the database as init() leaves it that are dated in the
\* current month
StoredThisMonth ==
    {inv \in AsOpened.invoices : Has(inv, "date") /\ inv.date = CurrentMonth}

\* C20: the number a New Invoice form holds is INV-<year><month>-<seq> with
\* seq one more than the count of stored invoices dated in the current
\* month at the time the form read them; it is read once, and the invoice a
\* form submits is stored under the number the form held, whatever has been
\* stored or deleted since.  (That two stored invoices then carry one
\* number is the state C20_Witness describes.)
C20_NumberFromCountReadOnce ==
    [][\A p \in Procs :
         /\ (forms[p] # NoForm /\ forms'[p] # NoForm /\ forms'[p].number # forms[p].number) =>
                /\ forms[p].number = <<>>
                /\ forms'[p].number = InvoiceNumber(Cardinality(StoredThisMonth) + 1)
         /\ (forms[p] # NoForm /\ forms'[p] = NoForm) =>
                /\ last'.op = "addInvoice" /\ last'.ok
                /\ ~Contains(idb.invoices, "id", last'.value.id)
                /\ Lookup(idb'.invoices, "id", last'.value.id).number = forms[p].number]_vars

\* two forms were opened before either was saved: two invoices are stored
\* under the number INV-<year><month>-001 and no invoice was ever deleted
C20_Witness ==
    /\ idb.invoiceGen = 3
    /\ \E i, j \in idb.invoices :
          /\ i.id # j.id
          /\ i.number = InvoiceNumber(1) /\ j.number = InvoiceNumber(1)

\* C21: every stored invoice has subtotal = the sum of its items' amounts and
\* total = subtotal - discount, whatever sequence of addInvoice,
\* updateInvoice, deleteInvoice, restore and clearDatabase has run.
C21_StoredInvoicesDerived ==
    \A inv \in idb.invoices :
        LET discount == IF Has(inv, "discount") THEN inv.discount.num ELSE 0
        IN /\ inv.subtotal = Num(AmountSum(inv.items))
           /\ inv.total = Num(AmountSum(inv.items) - discount)

\* C22: the settings collection holds at most one record and its key is
\* 'company', whatever key the argument of updateSettings or the settings
\* object of a restored document carries.
C22_SettingsSingleton ==
    /\ Cardinality(idb.settings) <= 1
    /\ \A r \in idb.settings : r.key = "company"

\* C23: in the New Invoice form every item's amount is its current quantity
\* times its current rate, the subtotal is the sum of the amounts and the
\* total is the subtotal less the discount, whatever edits were made; and an
\* invoice submitted from the form is stored with the sum of quantity times
\* rate as its subtotal.
C23_FormTotalsCurrent ==
    /\ \A p \in Procs :
          forms[p] # NoForm =>
              /\ \A i \in 1..Len(forms[p].items) :
                    forms[p].items[i].amount =
                        JsMul(forms[p].items[i].quantity, forms[p].items[i].rate)
              /\ forms[p].subtotal = FormSubtotal(forms[p].items)
              /\ forms[p].total = JsSub(forms[p].subtotal, forms[p].discount)
    /\ \A inv \in idb.invoices : inv.subtotal = SumQuantityRate(inv.items)

\* C25: a dangling client reference stays dangling: when a stored invoice
\* names a client id under which no client is stored, no addClient, restore
\* or clearDatabase that leaves the invoice as it is stores a client under
\* that id; an id addClient assigns is never one a stored invoice refers to.
C25_DanglingStaysDangling ==
    [][\A inv \in idb.invoices :
          (/\ inv \in idb'.invoices
           /\ last'.op \in {"addClient", "restore", "clearDatabase"}
           /\ ~Contains(idb.clients, "id", inv.clientId))
          => ~Contains(idb'.clients, "id", inv.clientId)]_vars

\* the records a document lists under a field that is an array
ArrayRows(doc, field) ==
    IF Has(doc, field) /\ ~IsJsonNumber(doc[field]) THEN Rows(doc, field) ELSE {}

\* C26: a restore of a text that is no JSON rejects with the three
\* collections exactly as they were; a restore of a parsable document that
\* rejects (its clients or invoices field is no array of records that can be
\* added) rejects after the three collections were cleared: what is stored
\* afterwards are records of the document only, and no Settings record.
C26_RejectsBeforeOrAfterClear ==
    [][last'.op = "restore" =>
         LET parsed == Parse(last'.arg)
         IN /\ ~parsed.ok =>
                  /\ ~last'.ok /\ last'.error = "SyntaxError"
                  /\ idb'.clients = AsOpened.clients
                  /\ idb'.invoices = AsOpened.invoices
                  /\ idb'.settings = AsOpened.settings
            /\ (parsed.ok /\ ~last'.ok) =>
                  /\ idb'.clients \subseteq ArrayRows(parsed.value, "clients")
                  /\ idb'.invoices \subseteq ArrayRows(parsed.value, "invoices")
                  /\ idb'.settings = {}]_vars

\* the restore of the document whose invoices field is a number was rejected
\* in a database that had assigned an invoice id before: the document's
\* client is stored, and neither an invoice nor a Settings record
C26_Witness ==
    /\ last.op = "restore" /\ ~last.ok /\ last.error = "TypeError"
    /\ last.arg = DocInvoicesNumber
    /\ idb.invoiceGen > 1
    /\ idb.clients = {[id |-> 1, name |-> "Acme"]}
    /\ idb.invoices = {} /\ idb.settings = {}

\* C27: updateClient with a truthy id resolves whether or not a client is
\* stored under the id: afterwards the record handed over is the one stored
\* under it (inserted if none was there, replacing the whole record
\* otherwise) and every other client is as it was; updateInvoice with an id
\* under which nothing is stored rejects and inserts nothing.
C27_UpdateClientUpsertsInvoiceNot ==
    [][/\ (last'.op = "updateClient" /\ HasClientId(last'.arg)) =>
              /\ last'.ok
              /\ idb'.clients =
                    {r \in idb.clients : r.id # last'.arg.id} \cup {last'.arg}
       /\ (last'.op = "updateInvoice" /\ ~Contains(idb.invoices, "id", last'.arg)) =>
              /\ ~last'.ok
              /\ ~Contains(idb'.invoices, "id", last'.arg)]_vars

\* updateClient resolved and two clients are stored, where nothing but
\* updateClient writes a client: each was inserted by an updateClient that
\* found no client under its id
C27_Witness ==
    /\ last.op = "updateClient" /\ last.ok
    /\ last.arg \in idb.clients
    /\ Cardinality(idb.clients) = 2

\* C28: when clearDatabase resolves the service holds a handle again, the
\* handle of a connection opened after the close and the delete and the only
\* one open; clients and invoices are empty and settings holds exactly the
\* default record; and the operation that follows runs on that handle, not
\* on the closed one.
C28_ClearDatabaseLeavesFresh ==
    /\ [][(last'.op = "clearDatabase" /\ last'.ok) =>
             /\ handle' # 0 /\ handle' \notin conns /\ conns' = {handle'}
             /\ idb'.clients = {} /\ idb'.invoices = {}
             /\ idb'.settings = {DefaultSettings}]_vars
    /\ [][(last.op = "clearDatabase" /\ last.ok /\ last'.op \in Ops) =>
             /\ handle' = handle /\ handle' \in conns']_vars

\* clearDatabase resolved after an updateSettings had stored a record of its
\* own: the default record is stored and the key generators start again
C28_Witness ==
    /\ last.op = "clearDatabase" /\ last.ok
    /\ "updateSettings" \in called
    /\ idb.settings = {DefaultSettings} /\ idb.clientGen = 1
    /\ handle \in conns

\* C30: on the Backup page every restore attempt ends with isRestoring
\* false, whether the file is read or not and whether db.restore resolves or
\* rejects; and while isRestoring is true no second attempt is started: the
\* page has one reader and one restore at most.
C30_RestoringEnds ==
    /\ \A p \in Procs :
          (forms[p] # NoForm /\ forms[p].isRestoring)
              ~> (forms[p] # NoForm /\ ~forms[p].isRestoring)
    /\ [][\A p \in Procs :
             (forms[p] # NoForm /\ forms[p].isRestoring) =>
                 ~(forms'[p].reader = "reading" /\ forms[p].reader # "reading")]_vars

\* C24: updateInvoice never creates a record: when the invoice it read was
\* deleted by another task's deleteInvoice before its put, no invoice is
\* stored under the id once updateInvoice has finished.
C24_UpdateNeverResurrects ==
    [][\A p \in Procs :
          (/\ awaiting[p].op = "updateInvoice"
           /\ awaiting'[p] = NoLocals
           /\ ~Contains(idb.invoices, "id", awaiting[p].id))
          => ~Contains(idb'.invoices, "id", awaiting[p].id)]_vars

\* C29: the document backup() returns is the store's contents at one single
\* point in time: it is the document of one of the contents the store has
\* had between the call's first read and its last, whatever other tasks
\* completed in between.
C29_BackupIsSnapshot ==
    [][(/\ awaiting[Caller].op = "backup"
        /\ last'.op = "backup" /\ last'.ok)
       => \E c \in awaiting[Caller].seen :
             BackupOf(c).ok /\ BackupOf(c).value = last'.value]_vars
====
